---- MODULE Spec2Model ----
(***************************************************************************)
(* Node-side attach/detach state machine of the virium iSCSI CSI driver    *)
(* (cmd/virium-iscsiplugin/iscsi_util.go): ISCSIUtil.AttachDisk and        *)
(* ISCSIUtil.DetachDisk, one statement group per step, over the OS state   *)
(* they drive: the iSCSI session table, the attached block devices, the    *)
(* mount table, the target directories and the persisted Connector files.  *)
(*                                                                         *)
(* One call is in flight at a time (spec section 5: calls for one volume   *)
(* are serialised by the orchestrator).  A target path belongs to one      *)
(* volume (the orchestrator derives it from the volume and the pod).       *)
(* Volume v1 is published at up to MaxPaths target paths (shared mounts of *)
(* one device); v2 is a second volume with one target path, whose target   *)
(* IQN is either v1's or another one.                                      *)
(*                                                                         *)
(* Spec is that machine; SpecCrash is the same machine with the driver     *)
(* process stopping between steps; SpecRequest is the handling of one      *)
(* request by getISCSIInfo, the secret parsers and the controller server.  *)
(***************************************************************************)
EXTENDS Integers, Sequences, FiniteSets, TLC

\* ------------------------------------------------------------------ bounds
MaxPaths == 2
NumPortals == 2

\* ------------------------------------------------------------- the universe
Vols == {"v1", "v2"}
IQNs == {"iqnA", "iqnB"}
PathsOf(v) == IF v = "v1" THEN 1..MaxPaths ELSE {1}
TargetPaths == {p \in Vols \X (1..MaxPaths) : p[2] \in PathsOf(p[1])}
VolOf(p) == p[1]

NoDevice == ""
DevOf(v) == IF v = "v1" THEN "/dev/sda" ELSE "/dev/sdb"
Devices == {DevOf(v) : v \in Vols}

Nil == "nil"
ConnectErrors == {"connect: no portal reachable", "connect: device did not appear"}

\* the portals of a volume's target, as getISCSIInfo lists them
TargetPortals == [i \in 1..NumPortals |-> <<"portal", i>>]
LogoutErrors == {"logout failed"}

ZeroConnector == [VolumeName |-> "", TargetIqn |-> "", TargetPortals |-> <<>>]

VARIABLES
    targetIqn,    \* volume context: the target IQN of each volume
    sessions,     \* IQNs the initiator is logged in to
    devices,      \* volumes whose block device is attached
    mounts,       \* mount table: target path -> device mounted there
    dirs,         \* target paths that exist
    files,        \* persisted Connector files: volume -> Connector
    pc,           \* position of the call in flight
    req,          \* the call's arguments
    devicePath,   \* AttachDisk: devicePath
    cnt,          \* DetachDisk: cnt
    device,       \* DetachDisk: the device GetDeviceNameFromMount found
    connector,    \* DetachDisk: connector
    err,          \* the error the call returns
    site,         \* source line of the return statement taken
    log,          \* collaborator calls made by the call in flight
    snap,         \* OS state when the call began
    prev,         \* the call that returned before this one
    rq,           \* request handling: the request received
    rs,           \* request handling: the handler's reply
    http          \* request handling: requests sent to the remote API

vars == <<targetIqn, sessions, devices, mounts, dirs, files, pc, req, devicePath,
          cnt, device, connector, err, site, log, snap, prev, rq, rs, http>>

os == <<sessions, devices, mounts, dirs, files>>
locals == <<devicePath, cnt, device, connector>>

OsState == [sessions |-> sessions, devices |-> devices, mounts |-> mounts,
            dirs |-> dirs, files |-> files]

NoReq == [op |-> "none", vol |-> "", path |-> <<"", 0>>, connNil |-> FALSE]
NoPrev == [op |-> "none", path |-> <<"", 0>>, site |-> 0, err |-> Nil]
NoSnap == [sessions |-> {}, devices |-> {}, mounts |-> [p \in TargetPaths |-> NoDevice],
           dirs |-> {}, files |-> <<>>]

getIscsiInfoPath(volumeID) == volumeID

Ev(name, e) == <<name, e>>
Called(name) == \E i \in 1..Len(log) : log[i][1] = name
Succeeded(name) == \E i \in 1..Len(log) : log[i] = Ev(name, Nil)
Failed(name) == \E i \in 1..Len(log) : log[i][1] = name /\ log[i][2] # Nil

\* request handling (getISCSIInfo, the secret parsers, the controller server)
\* is a separate specification, SpecRequest; here it is at rest
NoRequest == [kind |-> "none"]
NoResponse == [status |-> "none"]
handling == <<rq, rs, http>>

Init ==
    /\ rq = NoRequest /\ rs = NoResponse /\ http = <<>>
    /\ targetIqn \in {f \in [Vols -> IQNs] : f["v1"] = "iqnA"}
    /\ sessions = {}
    /\ devices = {}
    /\ mounts = [p \in TargetPaths |-> NoDevice]
    /\ dirs = {}
    /\ files = <<>>
    /\ pc = "idle"
    /\ req = NoReq
    /\ devicePath = ""
    /\ cnt = 0
    /\ device = NoDevice
    /\ connector = ZeroConnector
    /\ err = Nil
    /\ site = 0
    /\ log = <<>>
    /\ snap = NoSnap
    /\ prev = NoPrev

\* return <e> at source line <line>
Return(line, e) ==
    /\ pc' = "done"
    /\ err' = e
    /\ site' = line

\* ------------------------------------------------------ collaborators
\* Session Establisher, spec section 4.1: a successful Connect creates the
\* session and, unless no path was returned, attaches the volume's device.
Connect(c, dp) ==
    /\ sessions' = sessions \cup {c.TargetIqn}
    /\ devices' = IF dp # "" THEN devices \cup {c.VolumeName} ELSE devices

\* Persistence Store, spec section 4.2: one file per volume.
PersistConnector(c, path) ==
    files' = [w \in DOMAIN files \cup {path} |-> IF w = path THEN c ELSE files[w]]

\* Connector.DisconnectVolume: removes the volume's block device.
DisconnectVolume(c) == devices' = devices \ {c.VolumeName}

\* Session Teardown, spec section 4.4: best-effort logout of the target at
\* each portal in turn, outs[i] the outcome at portal i; a logout that fails
\* is logged and the next portal is tried.  The target's session is gone
\* once it is logged out at every portal.
Logouts(portals, outs) == [i \in 1..Len(portals) |-> <<"Logout", outs[i], portals[i]>>]

Disconnect(iqn, portals, outs) ==
    sessions' = IF \A i \in 1..Len(portals) : outs[i] = Nil
                  THEN sessions \ {iqn} ELSE sessions

\* mount.GetDeviceNameFromMount: the device mounted at the path and the
\* number of mount table entries of that device.
getDeviceNameFromMount(mps, p) ==
    LET dev == mps[p]
    IN  <<dev, IF dev = NoDevice THEN 0
               ELSE Cardinality({q \in TargetPaths : mps[q] = dev})>>

GetDeviceNameFromMount(p) == getDeviceNameFromMount(mounts, p)

\* mounter.IsLikelyNotMountPoint on an existing path.
IsLikelyNotMountPoint(p) == mounts[p] = NoDevice

\* b.connector as buildISCSIConnector makes it from the volume context.
buildISCSIConnector(v) ==
    [VolumeName |-> v, TargetIqn |-> targetIqn[v], TargetPortals |-> TargetPortals]

\* ------------------------------------------------------------ AttachDisk
\* lines 33-37: entry, connector nil check
AttachDisk1 ==
    /\ pc = "idle"
    /\ \E p \in TargetPaths, nilc \in BOOLEAN :
         /\ req' = [op |-> "AttachDisk", vol |-> VolOf(p), path |-> p, connNil |-> nilc]
         /\ IF nilc THEN Return(36, "connector is nil")
                    ELSE pc' = "AttachDisk2" /\ err' = Nil /\ site' = 0
    /\ log' = <<>>
    /\ snap' = OsState
    /\ UNCHANGED <<targetIqn, os, locals, prev>>

\* AttachDisk2 returning a wrapped error instead of Connect's own
AttachDisk2_WrapsError ==
    /\ pc = "AttachDisk2"
    /\ \/ \E e \in ConnectErrors :
            /\ log' = Append(log, Ev("Connect", e))
            /\ Return(43, "connect failed")
            /\ UNCHANGED <<sessions, devices, devicePath>>
       \/ \E dp \in {"", DevOf(req.vol)} :
            /\ Connect(buildISCSIConnector(req.vol), dp)
            /\ log' = Append(log, Ev("Connect", Nil))
            /\ devicePath' = dp
            /\ IF dp = ""
                 THEN Return(47, "connect reported success, but no path returned")
                 ELSE pc' = "AttachDisk4" /\ UNCHANGED <<err, site>>
    /\ UNCHANGED <<targetIqn, mounts, dirs, files, req, cnt, device, connector, snap, prev>>

\* lines 39-48: Connect, its error, the empty device path
AttachDisk2 ==
    /\ pc = "AttachDisk2"
    /\ \/ \E e \in ConnectErrors :
            /\ log' = Append(log, Ev("Connect", e))
            /\ Return(43, e)
            /\ UNCHANGED <<sessions, devices, devicePath>>
       \/ \E dp \in {"", DevOf(req.vol)} :
            /\ Connect(buildISCSIConnector(req.vol), dp)
            /\ log' = Append(log, Ev("Connect", Nil))
            /\ devicePath' = dp
            /\ IF dp = ""
                 THEN Return(47, "connect reported success, but no path returned")
                 ELSE pc' = "AttachDisk4" /\ UNCHANGED <<err, site>>
    /\ UNCHANGED <<targetIqn, mounts, dirs, files, req, cnt, device, connector, snap, prev>>

\* AttachDisk4 without the "already mounted" return
AttachDisk4_NoMountedReturn ==
    /\ pc = "AttachDisk4"
    /\ \/ /\ req.path \notin dirs
          /\ log' = Append(log, Ev("IsLikelyNotMountPoint", "not exist"))
          /\ pc' = "AttachDisk6" /\ UNCHANGED <<err, site>>
       \/ /\ req.path \in dirs
          /\ log' = Append(log, Ev("IsLikelyNotMountPoint", "stat failed"))
          /\ Return(54, "heuristic determination of mount point failed")
       \/ /\ req.path \in dirs
          /\ log' = Append(log, Ev("IsLikelyNotMountPoint", Nil))
          /\ pc' = "AttachDisk6" /\ UNCHANGED <<err, site>>
    /\ UNCHANGED <<targetIqn, os, req, locals, snap, prev>>

\* lines 49-60: mount point check, already mounted
AttachDisk4 ==
    /\ pc = "AttachDisk4"
    /\ \/ /\ req.path \notin dirs
          /\ log' = Append(log, Ev("IsLikelyNotMountPoint", "not exist"))
          /\ pc' = "AttachDisk6" /\ UNCHANGED <<err, site>>
       \/ /\ req.path \in dirs
          /\ log' = Append(log, Ev("IsLikelyNotMountPoint", "stat failed"))
          /\ Return(54, "heuristic determination of mount point failed")
       \/ /\ req.path \in dirs
          /\ log' = Append(log, Ev("IsLikelyNotMountPoint", Nil))
          /\ IF ~IsLikelyNotMountPoint(req.path)
               THEN Return(59, Nil)
               ELSE pc' = "AttachDisk6" /\ UNCHANGED <<err, site>>
    /\ UNCHANGED <<targetIqn, os, req, locals, snap, prev>>

\* AttachDisk6 going on to the mount with the persist step left out
AttachDisk6_SkipsPersist ==
    /\ pc = "AttachDisk6"
    /\ \/ /\ log' = Append(log, Ev("MkdirAll", "mkdir failed"))
          /\ Return(64, "mkdir failed")
          /\ UNCHANGED dirs
       \/ /\ log' = Append(log, Ev("MkdirAll", Nil))
          /\ dirs' = dirs \cup {req.path}
          /\ pc' = "AttachDisk8" /\ UNCHANGED <<err, site>>
    /\ UNCHANGED <<targetIqn, sessions, devices, mounts, files, req, locals, snap, prev>>

\* lines 61-65: os.MkdirAll
AttachDisk6 ==
    /\ pc = "AttachDisk6"
    /\ \/ /\ log' = Append(log, Ev("MkdirAll", "mkdir failed"))
          /\ Return(64, "mkdir failed")
          /\ UNCHANGED dirs
       \/ /\ log' = Append(log, Ev("MkdirAll", Nil))
          /\ dirs' = dirs \cup {req.path}
          /\ pc' = "AttachDisk7" /\ UNCHANGED <<err, site>>
    /\ UNCHANGED <<targetIqn, sessions, devices, mounts, files, req, locals, snap, prev>>

\* AttachDisk7 only logging a persist failure and going on to the mount
AttachDisk7_IgnoresFailure ==
    /\ pc = "AttachDisk7"
    /\ \/ /\ log' = Append(log, Ev("PersistConnector", "write failed"))
          /\ UNCHANGED files
       \/ /\ log' = Append(log, Ev("PersistConnector", Nil))
          /\ PersistConnector(buildISCSIConnector(req.vol), getIscsiInfoPath(req.vol))
    /\ pc' = "AttachDisk8"
    /\ UNCHANGED <<targetIqn, sessions, devices, mounts, dirs, req, locals, err, site,
                   snap, prev>>

\* lines 66-73: PersistConnector
AttachDisk7 ==
    /\ pc = "AttachDisk7"
    /\ \/ /\ log' = Append(log, Ev("PersistConnector", "write failed"))
          /\ Return(72, "unable to create persistence file for connection")
          /\ UNCHANGED files
       \/ /\ log' = Append(log, Ev("PersistConnector", Nil))
          /\ PersistConnector(buildISCSIConnector(req.vol), getIscsiInfoPath(req.vol))
          /\ pc' = "AttachDisk8" /\ UNCHANGED <<err, site>>
    /\ UNCHANGED <<targetIqn, sessions, devices, mounts, dirs, req, locals, snap, prev>>

\* AttachDisk8 rolling the attachment back when the mount fails
AttachDisk8_RollsBack ==
    /\ pc = "AttachDisk8"
    /\ \/ /\ log' = Append(log, Ev("FormatAndMount", "mount failed"))
          /\ Return(89, "mount failed")
          /\ files' = [w \in DOMAIN files \ {getIscsiInfoPath(req.vol)} |-> files[w]]
          /\ sessions' = sessions \ {targetIqn[req.vol]}
          /\ UNCHANGED mounts
       \/ /\ log' = Append(log, Ev("FormatAndMount", Nil))
          /\ mounts' = [mounts EXCEPT ![req.path] = devicePath]
          /\ Return(89, Nil)
          /\ UNCHANGED <<sessions, files>>
    /\ UNCHANGED <<targetIqn, devices, dirs, req, locals, snap, prev>>

\* lines 75-90: FormatAndMount, return devicePath, err
AttachDisk8 ==
    /\ pc = "AttachDisk8"
    /\ \/ /\ log' = Append(log, Ev("FormatAndMount", "mount failed"))
          /\ Return(89, "mount failed")
          /\ UNCHANGED mounts
       \/ /\ log' = Append(log, Ev("FormatAndMount", Nil))
          /\ mounts' = [mounts EXCEPT ![req.path] = devicePath]
          /\ Return(89, Nil)
    /\ UNCHANGED <<targetIqn, sessions, devices, dirs, files, req, locals, snap, prev>>

AttachDisk ==
    \/ AttachDisk1 \/ AttachDisk2 \/ AttachDisk4
    \/ AttachDisk6 \/ AttachDisk7 \/ AttachDisk8

\* ------------------------------------------------------------ DetachDisk
\* lines 92-97: entry, mount.GetDeviceNameFromMount
DetachDisk93 ==
    /\ pc = "idle"
    /\ \E p \in TargetPaths :
         /\ req' = [op |-> "DetachDisk", vol |-> VolOf(p), path |-> p, connNil |-> FALSE]
         /\ \/ /\ log' = <<Ev("GetDeviceNameFromMount", "list failed")>>
               /\ Return(96, "list failed")
               /\ UNCHANGED <<device, cnt>>
            \/ /\ log' = <<Ev("GetDeviceNameFromMount", Nil)>>
               /\ device' = GetDeviceNameFromMount(p)[1]
               /\ cnt' = GetDeviceNameFromMount(p)[2]
               /\ pc' = "DetachDisk98" /\ err' = Nil /\ site' = 0
    /\ snap' = OsState
    /\ UNCHANGED <<targetIqn, os, devicePath, connector, prev>>

\* DetachDisk98 without the "path does not exist" return
DetachDisk98_NoMissingPathReturn ==
    /\ pc = "DetachDisk98"
    /\ \/ /\ log' = Append(log, Ev("PathExists", "stat failed"))
          /\ Return(99, "error checking if path exists")
       \/ /\ log' = Append(log, Ev("PathExists", Nil))
          /\ pc' = "DetachDisk104" /\ UNCHANGED <<err, site>>
    /\ UNCHANGED <<targetIqn, os, req, locals, snap, prev>>

\* DetachDisk98 going on to the unmount with the load of the Connector left out
DetachDisk98_SkipsLoad ==
    /\ pc = "DetachDisk98"
    /\ \/ /\ log' = Append(log, Ev("PathExists", "stat failed"))
          /\ Return(99, "error checking if path exists")
       \/ /\ log' = Append(log, Ev("PathExists", Nil))
          /\ IF req.path \notin dirs
               THEN Return(102, Nil)
               ELSE pc' = "DetachDisk114" /\ UNCHANGED <<err, site>>
    /\ UNCHANGED <<targetIqn, os, req, locals, snap, prev>>

\* lines 98-103: mount.PathExists
DetachDisk98 ==
    /\ pc = "DetachDisk98"
    /\ \/ /\ log' = Append(log, Ev("PathExists", "stat failed"))
          /\ Return(99, "error checking if path exists")
       \/ /\ log' = Append(log, Ev("PathExists", Nil))
          /\ IF req.path \notin dirs
               THEN Return(102, Nil)
               ELSE pc' = "DetachDisk104" /\ UNCHANGED <<err, site>>
    /\ UNCHANGED <<targetIqn, os, req, locals, snap, prev>>

\* DetachDisk104 reporting a missing Connector file as an error
DetachDisk104_MissingFileIsError ==
    /\ pc = "DetachDisk104"
    /\ \/ /\ getIscsiInfoPath(req.vol) \notin DOMAIN files
          /\ log' = Append(log, Ev("GetConnectorFromFile", "not exist"))
          /\ Return(112, "Internal: not exist")
          /\ UNCHANGED connector
       \/ /\ getIscsiInfoPath(req.vol) \in DOMAIN files
          /\ log' = Append(log, Ev("GetConnectorFromFile", "read failed"))
          /\ Return(112, "Internal: read failed")
          /\ UNCHANGED connector
       \/ /\ getIscsiInfoPath(req.vol) \in DOMAIN files
          /\ log' = Append(log, Ev("GetConnectorFromFile", Nil))
          /\ connector' = files[getIscsiInfoPath(req.vol)]
          /\ pc' = "DetachDisk114" /\ UNCHANGED <<err, site>>
    /\ UNCHANGED <<targetIqn, os, req, devicePath, cnt, device, snap, prev>>

\* DetachDisk104 deleting the Connector file as soon as it is loaded
DetachDisk104_DeletesFileOnLoad ==
    /\ pc = "DetachDisk104"
    /\ \/ /\ getIscsiInfoPath(req.vol) \notin DOMAIN files
          /\ log' = Append(log, Ev("GetConnectorFromFile", "not exist"))
          /\ Return(110, Nil)
          /\ UNCHANGED <<connector, files>>
       \/ /\ getIscsiInfoPath(req.vol) \in DOMAIN files
          /\ log' = Append(log, Ev("GetConnectorFromFile", "read failed"))
          /\ Return(112, "Internal: read failed")
          /\ UNCHANGED <<connector, files>>
       \/ /\ getIscsiInfoPath(req.vol) \in DOMAIN files
          /\ log' = Append(log, Ev("GetConnectorFromFile", Nil))
          /\ connector' = files[getIscsiInfoPath(req.vol)]
          /\ files' = [w \in DOMAIN files \ {getIscsiInfoPath(req.vol)} |-> files[w]]
          /\ pc' = "DetachDisk114" /\ UNCHANGED <<err, site>>
    /\ UNCHANGED <<targetIqn, sessions, devices, mounts, dirs, req, devicePath, cnt, device,
                   snap, prev>>

\* lines 104-113: GetConnectorFromFile
DetachDisk104 ==
    /\ pc = "DetachDisk104"
    /\ \/ /\ getIscsiInfoPath(req.vol) \notin DOMAIN files
          /\ log' = Append(log, Ev("GetConnectorFromFile", "not exist"))
          /\ Return(110, Nil)
          /\ UNCHANGED connector
       \/ /\ getIscsiInfoPath(req.vol) \in DOMAIN files
          /\ log' = Append(log, Ev("GetConnectorFromFile", "read failed"))
          /\ Return(112, "Internal: read failed")
          /\ UNCHANGED connector
       \/ /\ getIscsiInfoPath(req.vol) \in DOMAIN files
          /\ log' = Append(log, Ev("GetConnectorFromFile", Nil))
          /\ connector' = files[getIscsiInfoPath(req.vol)]
          /\ pc' = "DetachDisk114" /\ UNCHANGED <<err, site>>
    /\ UNCHANGED <<targetIqn, os, req, devicePath, cnt, device, snap, prev>>

\* DetachDisk114 only logging an unmount failure and going on
DetachDisk114_IgnoresFailure ==
    /\ pc = "DetachDisk114"
    /\ \/ /\ log' = Append(log, Ev("Unmount", "unmount failed"))
          /\ UNCHANGED mounts
       \/ /\ mounts[req.path] # NoDevice
          /\ log' = Append(log, Ev("Unmount", Nil))
          /\ mounts' = [mounts EXCEPT ![req.path] = NoDevice]
    /\ pc' = "DetachDisk118"
    /\ UNCHANGED <<targetIqn, sessions, devices, dirs, files, req, locals, err, site,
                   snap, prev>>

\* lines 114-117: mounter.Unmount; umount fails on a path that is not mounted
DetachDisk114 ==
    /\ pc = "DetachDisk114"
    /\ \/ /\ log' = Append(log, Ev("Unmount", "unmount failed"))
          /\ Return(116, "unmount failed")
          /\ UNCHANGED mounts
       \/ /\ mounts[req.path] # NoDevice
          /\ log' = Append(log, Ev("Unmount", Nil))
          /\ mounts' = [mounts EXCEPT ![req.path] = NoDevice]
          /\ pc' = "DetachDisk118" /\ UNCHANGED <<err, site>>
    /\ UNCHANGED <<targetIqn, sessions, devices, dirs, files, req, locals, snap, prev>>

\* DetachDisk118 testing cnt without decrementing it
DetachDisk118_NoDecrement ==
    /\ pc = "DetachDisk118"
    /\ cnt' = cnt
    /\ IF cnt' # 0
         THEN Return(121, Nil)
         ELSE pc' = "DetachDisk124" /\ UNCHANGED <<err, site>>
    /\ UNCHANGED <<targetIqn, os, req, devicePath, device, connector, log, snap, prev>>

\* DetachDisk118 without the "device is in use" return
DetachDisk118_NoInUseReturn ==
    /\ pc = "DetachDisk118"
    /\ cnt' = cnt - 1
    /\ pc' = "DetachDisk124"
    /\ UNCHANGED <<targetIqn, os, req, devicePath, device, connector, log, snap, prev,
                   err, site>>

\* lines 118-122: cnt--, the device is in use
DetachDisk118 ==
    /\ pc = "DetachDisk118"
    /\ cnt' = cnt - 1
    /\ IF cnt' # 0
         THEN Return(121, Nil)
         ELSE pc' = "DetachDisk124" /\ UNCHANGED <<err, site>>
    /\ UNCHANGED <<targetIqn, os, req, devicePath, device, connector, log, snap, prev>>

\* DetachDisk124 only logging a DisconnectVolume failure and going on
DetachDisk124_IgnoresFailure ==
    /\ pc = "DetachDisk124"
    /\ \/ /\ log' = Append(log, Ev("DisconnectVolume", "disconnect failed"))
          /\ UNCHANGED devices
       \/ /\ log' = Append(log, Ev("DisconnectVolume", Nil))
          /\ DisconnectVolume(connector)
    /\ pc' = "DetachDisk131"
    /\ UNCHANGED <<targetIqn, sessions, mounts, dirs, files, req, locals, err, site,
                   snap, prev>>

\* DetachDisk124 cleaning up the directory and the file when DisconnectVolume fails
DetachDisk124_CleansUpOnFailure ==
    /\ pc = "DetachDisk124"
    /\ \/ /\ log' = Append(log, Ev("DisconnectVolume", "disconnect failed"))
          /\ Return(128, "disconnect failed")
          /\ dirs' = dirs \ {req.path}
          /\ files' = [w \in DOMAIN files \ {getIscsiInfoPath(req.vol)} |-> files[w]]
          /\ UNCHANGED <<devices, sessions, mounts>>
       \/ /\ log' = Append(log, Ev("DisconnectVolume", Nil))
          /\ DisconnectVolume(connector)
          /\ pc' = "DetachDisk131" /\ UNCHANGED <<err, site, sessions, mounts, dirs, files>>
    /\ UNCHANGED <<targetIqn, req, locals, snap, prev>>

\* lines 124-129: connector.DisconnectVolume
DetachDisk124 ==
    /\ pc = "DetachDisk124"
    /\ \/ /\ log' = Append(log, Ev("DisconnectVolume", "disconnect failed"))
          /\ Return(128, "disconnect failed")
          /\ UNCHANGED devices
       \/ /\ log' = Append(log, Ev("DisconnectVolume", Nil))
          /\ DisconnectVolume(connector)
          /\ pc' = "DetachDisk131" /\ UNCHANGED <<err, site>>
    /\ UNCHANGED <<targetIqn, sessions, mounts, dirs, files, req, locals, snap, prev>>

\* DetachDisk131 returning an error when a portal's logout failed
DetachDisk131_LogoutFailureIsFatal ==
    /\ pc = "DetachDisk131"
    /\ \E outs \in [1..Len(connector.TargetPortals) -> {Nil} \cup LogoutErrors] :
         /\ log' = log \o Logouts(connector.TargetPortals, outs)
                       \o <<Ev("Disconnect", Nil)>>
         /\ Disconnect(connector.TargetIqn, connector.TargetPortals, outs)
         /\ IF \E i \in DOMAIN outs : outs[i] # Nil
              THEN Return(131, "logout failed")
              ELSE pc' = "DetachDisk132" /\ UNCHANGED <<err, site>>
    /\ UNCHANGED <<targetIqn, devices, mounts, dirs, files, req, locals, snap, prev>>

\* line 131: Disconnect(connector.TargetIqn, connector.TargetPortals), which
\* returns nothing
DetachDisk131 ==
    /\ pc = "DetachDisk131"
    /\ \E outs \in [1..Len(connector.TargetPortals) -> {Nil} \cup LogoutErrors] :
         /\ log' = log \o Logouts(connector.TargetPortals, outs)
                       \o <<Ev("Disconnect", Nil)>>
         /\ Disconnect(connector.TargetIqn, connector.TargetPortals, outs)
    /\ pc' = "DetachDisk132"
    /\ UNCHANGED <<targetIqn, devices, mounts, dirs, files, req, locals, err, site, snap, prev>>

\* DetachDisk132 returning the error of a failed RemoveAll
DetachDisk132_FailureIsFatal ==
    /\ pc = "DetachDisk132"
    /\ \/ /\ log' = Append(log, Ev("RemoveAll", "remove failed"))
          /\ Return(133, "remove failed")
          /\ UNCHANGED dirs
       \/ /\ log' = Append(log, Ev("RemoveAll", Nil))
          /\ dirs' = dirs \ {req.path}
          /\ pc' = "DetachDisk135" /\ UNCHANGED <<err, site>>
    /\ UNCHANGED <<targetIqn, sessions, devices, mounts, files, req, locals, snap, prev>>

\* lines 132-134: os.RemoveAll(targetPath), failure only logged
DetachDisk132 ==
    /\ pc = "DetachDisk132"
    /\ \/ /\ log' = Append(log, Ev("RemoveAll", "remove failed"))
          /\ UNCHANGED dirs
       \/ /\ log' = Append(log, Ev("RemoveAll", Nil))
          /\ dirs' = dirs \ {req.path}
    /\ pc' = "DetachDisk135"
    /\ UNCHANGED <<targetIqn, sessions, devices, mounts, files, req, locals, err, site, snap, prev>>

\* lines 135-142: os.Remove(iscsiInfoPath)
DetachDisk135 ==
    /\ pc = "DetachDisk135"
    /\ \/ /\ log' = Append(log, Ev("Remove", "remove failed"))
          /\ Return(137, "remove failed")
          /\ UNCHANGED files
       \/ /\ log' = Append(log, Ev("Remove", Nil))
          /\ files' = [w \in DOMAIN files \ {getIscsiInfoPath(req.vol)} |-> files[w]]
          /\ Return(142, Nil)
    /\ UNCHANGED <<targetIqn, sessions, devices, mounts, dirs, req, locals, snap, prev>>

DetachDisk ==
    \/ DetachDisk93 \/ DetachDisk98 \/ DetachDisk104 \/ DetachDisk114 \/ DetachDisk118
    \/ DetachDisk124 \/ DetachDisk131 \/ DetachDisk132 \/ DetachDisk135

\* The call has returned to the orchestrator, which may issue the next one.
Returned ==
    /\ pc = "done"
    /\ pc' = "idle"
    /\ prev' = [op |-> req.op, path |-> req.path, site |-> site, err |-> err]
    /\ req' = NoReq
    /\ log' = <<>>
    /\ snap' = NoSnap
    /\ devicePath' = "" /\ cnt' = 0 /\ device' = NoDevice /\ connector' = ZeroConnector
    /\ err' = Nil /\ site' = 0
    /\ UNCHANGED <<targetIqn, os>>

Next == (AttachDisk \/ DetachDisk \/ Returned) /\ UNCHANGED handling

Spec == Init /\ [][Next]_vars

\* ------------------------------------------------------------------ crash
\* The driver process stops between two steps of the call in flight (or before
\* its reply is delivered) and is started again: the call and its locals are
\* gone, the sessions, devices, mounts, directories and files stay.
Crashed == "crash"
Crash ==
    /\ pc # "idle"
    /\ pc' = "idle"
    /\ prev' = [op |-> req.op, path |-> req.path, site |-> 0, err |-> Crashed]
    /\ req' = NoReq
    /\ log' = <<>>
    /\ snap' = NoSnap
    /\ devicePath' = "" /\ cnt' = 0 /\ device' = NoDevice /\ connector' = ZeroConnector
    /\ err' = Nil /\ site' = 0
    /\ UNCHANGED <<targetIqn, os>>

NextCrash == (AttachDisk \/ DetachDisk \/ Returned \/ Crash) /\ UNCHANGED handling

SpecCrash == Init /\ [][NextCrash]_vars

\* ================================================================ claims
Done(op) == pc = "done" /\ req.op = op
iscsiInfoPath == getIscsiInfoPath(req.vol)
Persisted == iscsiInfoPath \in DOMAIN files
Before(a, b) ==
    \A i \in 1..Len(log) : log[i][1] = b => \E j \in 1..(i - 1) : log[j] = Ev(a, Nil)

\* A collaborator outcome the OS state forces: the file or the path is not
\* there, or the path handed to umount is not mounted.
Forced(i) ==
    \/ log[i] = Ev("GetConnectorFromFile", "not exist")
    \/ log[i] = Ev("IsLikelyNotMountPoint", "not exist")
    \/ log[i][1] = "Unmount" /\ snap.mounts[req.path] = NoDevice
\* No collaborator of the call in flight failed for a reason outside the model.
NoFault == \A i \in 1..Len(log) : log[i][2] = Nil \/ Forced(i)

OthersMounted(mps, p) == {q \in TargetPaths \ {p} : mps[q] # NoDevice /\ mps[q] = mps[p]}

\* C1: in AttachDisk, PersistConnector is called only after Connect returned
\* success with a non-empty device path, FormatAndMount only after
\* PersistConnector succeeded, and whenever the mount is about to be or has
\* been made the volume's Connector file is there.
C1_PersistBetweenConnectAndMount ==
    req.op = "AttachDisk" =>
        /\ Before("Connect", "PersistConnector")
        /\ Called("PersistConnector") => devicePath # ""
        /\ Before("PersistConnector", "FormatAndMount")
        /\ (pc = "AttachDisk8" \/ Called("FormatAndMount")) =>
              Persisted /\ files[iscsiInfoPath] = buildISCSIConnector(req.vol)

C1_Witness == Done("AttachDisk") /\ Succeeded("FormatAndMount") /\ Persisted

\* C2: an unpublish that follows a publish of the same volume and target
\* path which failed at the mount step calls DisconnectVolume and deletes
\* the persisted Connector file (no collaborator failing on its own).
C2_UnpublishAfterFailedMount ==
    ( /\ Done("DetachDisk")
      /\ prev.op = "AttachDisk" /\ prev.path = req.path
      /\ prev.site = 89 /\ prev.err # Nil
      /\ NoFault )
    => (Called("DisconnectVolume") /\ ~Persisted)

\* C3: a DetachDisk repeated after one that unmounted the path and then
\* failed in DisconnectVolume calls DisconnectVolume again and deletes the
\* persisted Connector file (no collaborator failing on its own).
C3_RetryAfterFailedDisconnect ==
    ( /\ Done("DetachDisk")
      /\ prev.op = "DetachDisk" /\ prev.path = req.path
      /\ prev.site = 128
      /\ NoFault )
    => (Called("DisconnectVolume") /\ ~Persisted)

\* C4: a DetachDisk that immediately follows a successful DetachDisk of the
\* same volume and target path returns success and changes no session,
\* device, mount, directory or persisted file.
C4_DetachIdempotent ==
    ( /\ Done("DetachDisk")
      /\ prev.op = "DetachDisk" /\ prev.path = req.path
      /\ prev.err = Nil
      /\ NoFault )
    => (err = Nil /\ OsState = snap)

\* C5: with one volume mounted at two target paths, unpublishing the first
\* makes no DisconnectVolume/Disconnect call and leaves the other mount, the
\* session and the persisted file; unpublishing the second right after it
\* disconnects and deletes the file (no collaborator failing on its own).
C5_SharedMountUnpublish ==
    /\ ( /\ Done("DetachDisk")
         /\ Cardinality(OthersMounted(snap.mounts, req.path)) = 1 )
       => /\ ~Called("DisconnectVolume") /\ ~Called("Disconnect")
          /\ \A q \in OthersMounted(snap.mounts, req.path) : mounts[q] = snap.mounts[q]
          /\ sessions = snap.sessions
          /\ files = snap.files /\ iscsiInfoPath \in DOMAIN files
          /\ NoFault => (err = Nil /\ mounts[req.path] = NoDevice)
    /\ ( /\ Done("DetachDisk")
         /\ prev.op = "DetachDisk" /\ prev.site = 121
         /\ prev.path # req.path /\ VolOf(prev.path) = req.vol
         /\ snap.mounts[req.path] # NoDevice
         /\ OthersMounted(snap.mounts, req.path) = {}
         /\ NoFault )
       => /\ err = Nil
          /\ Succeeded("DisconnectVolume") /\ Called("Disconnect")
          /\ ~Persisted

C5_Witness ==
    /\ Done("DetachDisk") /\ site = 142
    /\ prev.op = "DetachDisk" /\ prev.site = 121
    /\ prev.path # req.path /\ VolOf(prev.path) = req.vol

\* C6: DetachDisk calls DisconnectVolume or Disconnect only when no mount
\* table entry of the target path's device is left, and when the reference
\* count read for the path less the one unmount is not zero it returns
\* success with session, persisted file and directories unchanged.
C6_NoDisconnectWhileReferenced ==
    req.op = "DetachDisk" =>
        /\ (Called("DisconnectVolume") \/ Called("Disconnect")) =>
              /\ device # NoDevice
              /\ \A q \in TargetPaths : mounts[q] # device
        /\ ( /\ pc = "done"
             /\ Succeeded("Unmount")
             /\ getDeviceNameFromMount(snap.mounts, req.path)[2] - 1 # 0 )
           => /\ err = Nil
              /\ sessions = snap.sessions /\ devices = snap.devices
              /\ files = snap.files
              /\ dirs = snap.dirs

C6_Witness ==
    /\ Done("DetachDisk") /\ site = 121 /\ Succeeded("Unmount")
    /\ \E q \in TargetPaths : mounts[q] = device

\* C7 as claimed: when the target path is already a mount point AttachDisk
\* returns no error and changes no session, directory, file or mount.
C7_AlreadyMountedIsNoOp ==
    ( /\ Done("AttachDisk") /\ ~req.connNil
      /\ snap.mounts[req.path] # NoDevice )
    => /\ err = Nil
       /\ sessions = snap.sessions
       /\ dirs = snap.dirs /\ files = snap.files /\ mounts = snap.mounts
       /\ ~Called("FormatAndMount")

\* C7 amended: when Connect succeeded with a device path and the mount point
\* check reports the target path as mounted, AttachDisk returns no error,
\* and creates no directory, writes no Connector file and mounts nothing.
C7_AlreadyMountedAfterConnect ==
    ( /\ Done("AttachDisk")
      /\ snap.mounts[req.path] # NoDevice
      /\ Succeeded("Connect") /\ devicePath # ""
      /\ Succeeded("IsLikelyNotMountPoint") )
    => /\ err = Nil
       /\ dirs = snap.dirs /\ files = snap.files /\ mounts = snap.mounts
       /\ ~Called("MkdirAll") /\ ~Called("PersistConnector")
       /\ ~Called("FormatAndMount")

C7_Witness ==
    /\ Done("AttachDisk") /\ site = 59
    /\ snap.mounts[req.path] # NoDevice

\* C8: when Connect fails AttachDisk returns Connect's error as it is and
\* creates no Connector file and no directory and mounts nothing.
C8_ConnectFailureReturned ==
    (Done("AttachDisk") /\ Failed("Connect")) =>
        /\ err = log[Len(log)][2] /\ log[Len(log)][1] = "Connect"
        /\ files = snap.files /\ dirs = snap.dirs /\ mounts = snap.mounts
        /\ ~Called("MkdirAll") /\ ~Called("PersistConnector")
        /\ ~Called("FormatAndMount")

C8_Witness == Done("AttachDisk") /\ site = 43 /\ err \in ConnectErrors

\* C9: when PersistConnector fails after a successful Connect, AttachDisk
\* returns an error and never reaches FormatAndMount.
C9_PersistFailureIsFatal ==
    (req.op = "AttachDisk" /\ Failed("PersistConnector")) =>
        /\ pc = "done" /\ err # Nil
        /\ ~Called("FormatAndMount")
        /\ mounts = snap.mounts

C9_Witness ==
    Done("AttachDisk") /\ Succeeded("Connect") /\ Failed("PersistConnector")

\* C10: when FormatAndMount fails AttachDisk returns the mount error and
\* rolls nothing back: no DisconnectVolume or Disconnect call, the session
\* is still established and the Connector file is still in place.
C10_MountFailureNoRollback ==
    (Done("AttachDisk") /\ Failed("FormatAndMount")) =>
        /\ err = log[Len(log)][2] /\ log[Len(log)][1] = "FormatAndMount"
        /\ ~Called("DisconnectVolume") /\ ~Called("Disconnect")
        /\ targetIqn[req.vol] \in sessions
        /\ req.vol \in devices
        /\ Persisted /\ files[iscsiInfoPath] = buildISCSIConnector(req.vol)

C10_Witness ==
    Done("AttachDisk") /\ site = 89 /\ err # Nil /\ Failed("FormatAndMount")

\* C11: when Unmount of the target path fails, DetachDisk returns that
\* error and makes no DisconnectVolume or Disconnect call, removes no
\* directory and deletes no Connector file.
C11_UnmountFailureIsFatal ==
    (req.op = "DetachDisk" /\ Failed("Unmount")) =>
        /\ pc = "done"
        /\ err = log[Len(log)][2] /\ log[Len(log)][1] = "Unmount"
        /\ ~Called("DisconnectVolume") /\ ~Called("Disconnect")
        /\ ~Called("RemoveAll") /\ ~Called("Remove")
        /\ OsState = snap

C11_Witness ==
    /\ Done("DetachDisk") /\ site = 116
    /\ snap.mounts[req.path] # NoDevice /\ Persisted

\* C12: within a DetachDisk call the Connector file is deleted only after
\* DisconnectVolume of that call has succeeded; AttachDisk deletes no file.
C12_FileDeletedOnlyAfterTeardown ==
    /\ req.op = "DetachDisk" =>
          /\ Before("DisconnectVolume", "Remove")
          /\ (DOMAIN files # DOMAIN snap.files) =>
                /\ Succeeded("DisconnectVolume") /\ Succeeded("Remove")
                /\ DOMAIN files = DOMAIN snap.files \ {iscsiInfoPath}
    /\ req.op = "AttachDisk" => DOMAIN snap.files \subseteq DOMAIN files

C12_Witness ==
    /\ Done("DetachDisk") /\ site = 142
    /\ iscsiInfoPath \in DOMAIN snap.files /\ ~Persisted

\* C13: when the load finds no Connector file for the volume, DetachDisk
\* returns success, and whenever the file is absent at the call it makes no
\* DisconnectVolume or Disconnect call.
C13_MissingFileIsSuccess ==
    /\ (Done("DetachDisk") /\ Called("GetConnectorFromFile")
           /\ iscsiInfoPath \notin DOMAIN snap.files)
       => (err = Nil /\ site = 110)
    /\ (req.op = "DetachDisk" /\ iscsiInfoPath \notin DOMAIN snap.files)
       => (~Called("DisconnectVolume") /\ ~Called("Disconnect") /\ ~Called("Unmount"))

C13_Witness ==
    /\ Done("DetachDisk") /\ site = 110
    /\ req.path \in dirs /\ ~Persisted

\* C14: when the target path does not exist, DetachDisk returns success at
\* the path check, and makes no Unmount, DisconnectVolume or Disconnect
\* call and deletes no Connector file.
C14_MissingPathIsSuccess ==
    /\ (Done("DetachDisk") /\ Succeeded("PathExists") /\ req.path \notin snap.dirs)
       => (err = Nil /\ site = 102)
    /\ (req.op = "DetachDisk" /\ req.path \notin snap.dirs)
       => /\ ~Called("GetConnectorFromFile") /\ ~Called("Unmount")
          /\ ~Called("DisconnectVolume") /\ ~Called("Disconnect")
          /\ ~Called("Remove")
          /\ OsState = snap

C14_Witness ==
    /\ Done("DetachDisk") /\ site = 102
    /\ req.path \notin dirs /\ Persisted

\* C19: the Disconnect step of DetachDisk attempts the logout at every
\* portal of the persisted Connector, in order, whatever the earlier ones
\* gave, and the result of DetachDisk is that of the later os.Remove alone.
LogoutsMade == SelectSeq(log, LAMBDA e : e[1] = "Logout")

C20_UnmountLoadTeardownDelete ==
    req.op = "DetachDisk" =>
        /\ Before("Unmount", "GetConnectorFromFile")
        /\ Before("GetConnectorFromFile", "DisconnectVolume")
        /\ Before("DisconnectVolume", "Remove")

\* C20 amended: the load of the persisted Connector comes first, then the
\* unmount of the target path, then the session teardown (DisconnectVolume,
\* Disconnect), then the deletion of the Connector file.
C20_LoadUnmountTeardownDelete ==
    req.op = "DetachDisk" =>
        /\ Before("GetConnectorFromFile", "Unmount")
        /\ Before("Unmount", "DisconnectVolume")
        /\ Before("DisconnectVolume", "Disconnect")
        /\ Before("Disconnect", "Remove")

C20_Witness ==
    /\ Done("DetachDisk") /\ Succeeded("Remove")
    /\ Succeeded("GetConnectorFromFile") /\ Succeeded("Unmount")
    /\ Succeeded("DisconnectVolume")

\* C21: when DisconnectVolume fails in DetachDisk, the call returns that error
\* and neither removes the target directory nor deletes the persisted
\* Connector file: what a later teardown needs is still there.
C21_DisconnectFailureKeepsState ==
    (Done("DetachDisk") /\ Failed("DisconnectVolume")) =>
        /\ err = "disconnect failed" /\ site = 128
        /\ log[Len(log)] = Ev("DisconnectVolume", err)
        /\ ~Called("Disconnect") /\ ~Called("RemoveAll") /\ ~Called("Remove")
        /\ req.path \in dirs
        /\ Persisted /\ files[iscsiInfoPath] = snap.files[iscsiInfoPath]
        /\ sessions = snap.sessions

C21_Witness ==
    /\ Done("DetachDisk") /\ Failed("DisconnectVolume")
    /\ Succeeded("Unmount") /\ err # Nil

\* C22: after the session teardown in DetachDisk, a failure to remove the
\* target directory does not fail the call and does not keep it from deleting
\* the persisted Connector file; a failure to delete the file is the call's
\* error.
C22_DirFailureNotFatalFileFailureIs ==
    (Done("DetachDisk") /\ Called("Disconnect")) =>
        /\ Called("RemoveAll") /\ Called("Remove")
        /\ Before("RemoveAll", "Remove") \/ Failed("RemoveAll")
        /\ Succeeded("Remove") => err = Nil /\ ~Persisted
        /\ Failed("Remove") => err = "remove failed" /\ Persisted
        /\ Failed("RemoveAll") => req.path \in dirs

C22_Witness ==
    /\ Done("DetachDisk") /\ Failed("RemoveAll")
    /\ Succeeded("Remove") /\ err = Nil /\ ~Persisted

\* C23: no return of AttachDisk leaves a connected-but-unrecorded session:
\* when AttachDisk returns after its Connect succeeded, either the volume's
\* Connector file exists or the session the call created is torn down.  The
\* returns at lines 47, 54, 64 and 72 come after Connect and before a
\* successful PersistConnector, and none of them disconnects.
SessionCreated ==
    /\ targetIqn[req.vol] \notin snap.sessions
    /\ targetIqn[req.vol] \in sessions
C23_NoUnrecordedSession ==
    (Done("AttachDisk") /\ Succeeded("Connect")) => (Persisted \/ ~SessionCreated)

\* C24: DetachDisk never returns success for an existing target path that was
\* mounted when the call began without having unmounted it; the return for a
\* missing Connector file (line 110) is taken only on a path that is not
\* mounted.  Crashes between steps included.
MountedAtCall == req.path \in snap.dirs /\ snap.mounts[req.path] # NoDevice
C25_MountedImpliesPersisted ==
    \A p \in TargetPaths :
        mounts[p] # NoDevice => getIscsiInfoPath(VolOf(p)) \in DOMAIN files

\* a crash stopped a DetachDisk of a volume that is still mounted somewhere
C25_Witness ==
    /\ pc = "idle" /\ prev.op = "DetachDisk" /\ prev.err = Crashed
    /\ \E p \in TargetPaths : VolOf(p) = VolOf(prev.path) /\ mounts[p] # NoDevice
    /\ getIscsiInfoPath(VolOf(prev.path)) \in DOMAIN files

\* C26: detaching volume A never logs out of an IQN/portal pair named by the
\* persisted Connector of another volume B that still has a mounted target
\* path.  cnt counts the mounts of A's device only, and line 131 logs out of
\* the Connector's IQN at its portals whoever else uses the session.
SharesTarget(b) ==
    /\ b # req.vol
    /\ getIscsiInfoPath(b) \in DOMAIN files
    /\ files[getIscsiInfoPath(b)].TargetIqn = connector.TargetIqn
    /\ \E i \in 1..Len(LogoutsMade), j \in 1..Len(files[getIscsiInfoPath(b)].TargetPortals) :
           LogoutsMade[i][3] = files[getIscsiInfoPath(b)].TargetPortals[j]
    /\ \E p \in TargetPaths : VolOf(p) = b /\ mounts[p] # NoDevice
C26_NoLogoutOfSharedSession ==
    (req.op = "DetachDisk" /\ Len(LogoutsMade) > 0 /\ NoFault) =>
        ~ \E b \in Vols : SharesTarget(b)

\* ====================================================== request handling
\* getISCSIInfo, buildISCSIConnector, the secret parsers and the controller
\* server, applied to one request drawn from the inputs below.  A string the
\* code looks into (a portal, a LUN) is the sequence of its tokens.

Contains(s, t) == \E i \in 1..Len(s) : s[i] = t

\* ---------------------------------------------------------------- inputs
PortalHost == <<"10.0.0.5">>
PortalHostPort == <<"10.0.0.5", ":", "3261">>
Portal2 == <<"10.0.0.6">>
Portal3 == <<"10.0.0.7", ":", "3260">>
IqnVol1 == "iqn.2025-01.test:vol1"

SessionKeys == <<"node.session.auth.username", "node.session.auth.password",
                 "node.session.auth.username_in", "node.session.auth.password_in">>
DiscoveryKeys == <<"node.sendtargets.auth.username", "node.sendtargets.auth.password",
                   "node.sendtargets.auth.username_in", "node.sendtargets.auth.password_in">>
KeySet(ks) == {ks[i] : i \in 1..Len(ks)}
SecretValues == <<"user", "pass", "user_in", "pass_in">>
SecretValue(k) == IF k \in KeySet(SessionKeys)
                  THEN SecretValues[CHOOSE i \in 1..Len(SessionKeys) : SessionKeys[i] = k]
                  ELSE SecretValues[CHOOSE i \in 1..Len(DiscoveryKeys) : DiscoveryKeys[i] = k]
\* map[string]string values; the nil map is the empty one (len 0)
SecretMaps == {[k \in K |-> SecretValue(k)] :
                  K \in SUBSET (KeySet(SessionKeys) \cup KeySet(DiscoveryKeys))}

\* the JSON texts of the volume context: "" (key absent), a text that does not
\* parse, or the text of a value
PortalsJSON == {[kind |-> "absent", items |-> <<>>], [kind |-> "invalid", items |-> <<>>]}
               \cup {[kind |-> "array", items |-> l] :
                        l \in {<<>>, <<Portal2>>, <<Portal2, Portal3>>}}
SecretJSON == {[kind |-> "absent", map |-> <<>>], [kind |-> "invalid", map |-> <<>>]}
              \cup {[kind |-> "object", map |-> m] : m \in SecretMaps}
VolumeContexts == [target_portal : {<<>>, PortalHost, PortalHostPort},
                   target_iqn : {"", IqnVol1},
                   lun : {<<>>, <<"0">>, <<"1", "2">>, <<"x">>},
                   portals : PortalsJSON,
                   secret : SecretJSON]
NoContext == [target_portal |-> <<>>, target_iqn |-> "", lun |-> <<>>,
              portals |-> [kind |-> "absent", items |-> <<>>],
              secret |-> [kind |-> "absent", map |-> <<>>]]

\* a request: its kind, its id (volume id, snapshot id), its volume context,
\* the argument of a secret parser, its capacity range, and what the remote
\* API answers if it is asked
Request(kind, id, ctx, secretParams, capacityRange, api) ==
    [kind |-> kind, id |-> id, ctx |-> ctx, secretParams |-> secretParams,
     capacityRange |-> capacityRange, api |-> api]
ApiAnswers == {"ok", "fail", "garbage"}
Requests ==
    {Request("getISCSIInfo", id, c, <<>>, "nil", "ok") :
        id \in {"", "vol-1"}, c \in VolumeContexts}
    \cup {Request(k, "", NoContext, m, "nil", "ok") :
        k \in {"parseSessionSecret", "parseDiscoverySecret"}, m \in SecretMaps}
    \cup {Request("CreateVolume", "pvc-1", NoContext, <<>>, r, a) :
        r \in {"nil", "1Gi"}, a \in ApiAnswers}
    \cup {Request(k, id, NoContext, <<>>, "nil", a) :
        k \in {"DeleteVolume", "DeleteSnapshot"}, id \in {"", "vol-1"}, a \in ApiAnswers}
    \cup {Request("ControllerExpandVolume", id, NoContext, <<>>, r, a) :
        id \in {"", "vol-1"}, r \in {"nil", "1Gi"}, a \in ApiAnswers}

\* ---------------------------------------------------------------- replies
Ok(v) == [status |-> "ok", err |-> Nil, val |-> v]
Error(e, v) == [status |-> "error", err |-> e, val |-> v]
Panic(e) == [status |-> "panic", err |-> e, val |-> [kind |-> "none"]]
NoValue == [kind |-> "none"]

\* ------------------------------------------------------------ iscsi_util.go
portalMounter(portal) ==
    IF ~Contains(portal, ":") THEN portal \o <<":", "3260">> ELSE portal

parseSecret(secretParams) ==
    IF secretParams.kind = "object" THEN secretParams.map ELSE <<>>

ZeroSecrets == [UserName |-> "", Password |-> "", UserNameIn |-> "", PasswordIn |-> "",
                SecretsType |-> ""]

\* the statements shared by parseSessionSecret and parseDiscoverySecret: the
\* keys are looked up in order, the first one missing is the error
FirstMissing(secretParams, ks) ==
    CHOOSE i \in 1..Len(ks) :
        /\ ks[i] \notin DOMAIN secretParams
        /\ \A j \in 1..(i - 1) : ks[j] \in DOMAIN secretParams
ChapSecrets(secretParams, ks) ==
    [UserName |-> secretParams[ks[1]], Password |-> secretParams[ks[2]],
     UserNameIn |-> secretParams[ks[3]], PasswordIn |-> secretParams[ks[4]],
     SecretsType |-> "chap"]
\* the fields assigned so far when key i is found missing
PartialSecrets(secretParams, ks, i) ==
    [UserName |-> IF i > 1 THEN secretParams[ks[1]] ELSE "",
     Password |-> IF i > 2 THEN secretParams[ks[2]] ELSE "",
     UserNameIn |-> IF i > 3 THEN secretParams[ks[3]] ELSE "",
     PasswordIn |-> "", SecretsType |-> ""]

parseSessionSecret_PartialOnError(secretParams) ==
    IF DOMAIN secretParams = {} THEN [secret |-> ZeroSecrets, err |-> Nil]
    ELSE IF \E i \in 1..Len(SessionKeys) : SessionKeys[i] \notin DOMAIN secretParams
    THEN [secret |-> PartialSecrets(secretParams, SessionKeys,
                                    FirstMissing(secretParams, SessionKeys)),
          err |-> SessionKeys[FirstMissing(secretParams, SessionKeys)]]
    ELSE [secret |-> ChapSecrets(secretParams, SessionKeys), err |-> Nil]

\* (Secrets, error); the error "<key> not found in secret" is the key's name
parseSessionSecret(secretParams) ==
    IF DOMAIN secretParams = {} THEN [secret |-> ZeroSecrets, err |-> Nil]
    ELSE IF \E i \in 1..Len(SessionKeys) : SessionKeys[i] \notin DOMAIN secretParams
    THEN [secret |-> ZeroSecrets,
          err |-> SessionKeys[FirstMissing(secretParams, SessionKeys)]]
    ELSE [secret |-> ChapSecrets(secretParams, SessionKeys), err |-> Nil]

parseDiscoverySecret(secretParams) ==
    IF DOMAIN secretParams = {} THEN [secret |-> ZeroSecrets, err |-> Nil]
    ELSE IF \E i \in 1..Len(DiscoveryKeys) : DiscoveryKeys[i] \notin DOMAIN secretParams
    THEN [secret |-> ZeroSecrets,
          err |-> DiscoveryKeys[FirstMissing(secretParams, DiscoveryKeys)]]
    ELSE [secret |-> ChapSecrets(secretParams, DiscoveryKeys), err |-> Nil]

\* strconv.Atoi on a string of tokens: the value, or an error
Digits == <<"0", "1", "2", "3", "4", "5", "6", "7", "8", "9">>
IsDigit(c) == \E d \in 1..Len(Digits) : Digits[d] = c
DigitValue(c) == (CHOOSE d \in 1..Len(Digits) : Digits[d] = c) - 1
RECURSIVE AtoiValue(_)
AtoiValue(s) ==
    IF s = <<>> THEN 0
    ELSE 10 * AtoiValue(SubSeq(s, 1, Len(s) - 1)) + DigitValue(s[Len(s)])
Atoi(s) ==
    IF s # <<>> /\ \A i \in 1..Len(s) : IsDigit(s[i])
    THEN [val |-> AtoiValue(s), err |-> Nil]
    ELSE [val |-> 0, err |-> "strconv.Atoi: invalid syntax"]

RECURSIVE MountAll(_)
MountAll(portals) ==
    IF portals = <<>> THEN <<>>
    ELSE <<portalMounter(Head(portals))>> \o MountAll(Tail(portals))

\* m[key] of a Go map: the zero value when the key is not in it
Get(m, key, zero) == IF key \in DOMAIN m THEN m[key] ELSE zero
\* the empty text, where a JSON text is expected
NoJSON == [kind |-> "absent", items |-> <<>>, map |-> <<>>]

NilDisk == [nil |-> TRUE]
\* (*iscsiDisk, error)
getISCSIInfo(r) ==
    LET tp == Get(r.ctx, "target_portal", <<>>)
        iqn == Get(r.ctx, "target_iqn", "")
        lun == Get(r.ctx, "lun", <<>>)
        secret == parseSecret(Get(r.ctx, "secret", NoJSON))
        session == parseSessionSecret(secret)
        discovery == parseDiscoverySecret(secret)
        portalList == Get(r.ctx, "portals", NoJSON)
        bkportal == IF portalList.kind = "absent" THEN <<>>
                    ELSE <<portalMounter(tp)>> \o MountAll(portalList.items)
    IN  IF tp = <<>> \/ iqn = "" \/ lun = <<>>
        THEN [disk |-> NilDisk, err |-> "ISCSI target information is missing"]
        ELSE IF session.err # Nil THEN [disk |-> NilDisk, err |-> session.err]
        ELSE IF discovery.err # Nil THEN [disk |-> NilDisk, err |-> discovery.err]
        ELSE IF portalList.kind = "invalid"
        THEN [disk |-> NilDisk, err |-> "json: cannot unmarshal"]
        ELSE IF Atoi(lun).err # Nil THEN [disk |-> NilDisk, err |-> Atoi(lun).err]
        ELSE [disk |-> [nil |-> FALSE, VolName |-> r.id, Portals |-> bkportal,
                        Iqn |-> iqn, lun |-> Atoi(lun).val, secret |-> secret,
                        sessionSecret |-> session.secret,
                        discoverySecret |-> discovery.secret],
              err |-> Nil]

NilConnector == [nil |-> TRUE]
\* buildISCSIConnector applied to the iscsiDisk of a request (above it is applied
\* to the disk of a volume of the environment)
buildISCSIConnectorOf(iscsiInfo) ==
    IF iscsiInfo.nil \/ iscsiInfo.VolName = "" \/ iscsiInfo.Iqn = "" THEN NilConnector
    ELSE [nil |-> FALSE, VolumeName |-> iscsiInfo.VolName, TargetIqn |-> iscsiInfo.Iqn,
          TargetPortals |-> iscsiInfo.Portals, Lun |-> iscsiInfo.lun,
          DiscoverySecrets |-> iscsiInfo.discoverySecret,
          SessionSecrets |-> iscsiInfo.sessionSecret]

getISCSIDiskMounter(iscsiInfo) ==
    [iscsiDisk |-> iscsiInfo, connector |-> buildISCSIConnectorOf(iscsiInfo)]

\* ------------------------------------------------------- controller server
\* the remote volume API: the request goes out, the answer is the input's
viriumHttpClient(method, url) == Append(http, [method |-> method, url |-> url])

\* the VolumeResponse the API answers with
VolumeResponse == [VolumeID |-> "vol-1", TargetPortal |-> PortalHost, Iqn |-> IqnVol1,
                   Lun |-> <<"0">>, DiscoveryCHAPAuth |-> "false",
                   SessionCHAPAuth |-> "false"]

nodeVars == <<targetIqn, sessions, devices, mounts, dirs, files, pc, req, devicePath,
              cnt, device, connector, err, site, log, snap, prev>>

\* ---------------------------------------------------------------- handlers
\* NodePublishVolume up to the disk mounter: getISCSIInfo, then
\* getISCSIDiskMounter, which builds the Connector
GetISCSIInfo ==
    /\ rq.kind = "getISCSIInfo" /\ rs = NoResponse
    /\ LET info == getISCSIInfo(rq)
       IN  rs' = IF info.err # Nil THEN Error(info.err, NoValue)
                 ELSE Ok(getISCSIDiskMounter(info.disk))
    /\ UNCHANGED <<rq, http, nodeVars>>

ParseSessionSecret ==
    /\ rq.kind = "parseSessionSecret" /\ rs = NoResponse
    /\ LET r == parseSessionSecret(rq.secretParams)
       IN  rs' = IF r.err # Nil THEN Error(r.err, r) ELSE Ok(r)
    /\ UNCHANGED <<rq, http, nodeVars>>

ParseDiscoverySecret ==
    /\ rq.kind = "parseDiscoverySecret" /\ rs = NoResponse
    /\ LET r == parseDiscoverySecret(rq.secretParams)
       IN  rs' = IF r.err # Nil THEN Error(r.err, r) ELSE Ok(r)
    /\ UNCHANGED <<rq, http, nodeVars>>

CreateVolume ==
    /\ rq.kind = "CreateVolume" /\ rs = NoResponse
    /\ IF rq.capacityRange = "nil"
       THEN \* req.CapacityRange.RequiredBytes on a nil CapacityRange
            /\ rs' = Panic("invalid memory address or nil pointer dereference")
            /\ http' = http
       ELSE /\ http' = viriumHttpClient("POST", "/api/volumes/create")
            /\ rs' = IF rq.api = "fail" THEN Error("API request failed", NoValue)
                     ELSE IF rq.api = "garbage"
                     THEN Error("failed to parse volume response", NoValue)
                     ELSE Ok([VolumeId |-> VolumeResponse.VolumeID,
                              CapacityBytes |-> rq.capacityRange,
                              VolumeContext |->
                                  [portals |-> [kind |-> "array",
                                                items |-> <<VolumeResponse.TargetPortal>>],
                                   targetPortal |-> VolumeResponse.TargetPortal,
                                   iqn |-> VolumeResponse.Iqn,
                                   lun |-> VolumeResponse.Lun,
                                   interface |-> "default",
                                   discoveryCHAPAuth |-> VolumeResponse.DiscoveryCHAPAuth,
                                   sessionCHAPAuth |-> VolumeResponse.SessionCHAPAuth]])
    /\ UNCHANGED <<rq, nodeVars>>

DeleteVolume ==
    /\ rq.kind = "DeleteVolume" /\ rs = NoResponse
    /\ IF rq.id = ""
       THEN /\ rs' = Error("volume ID is required", NoValue)
            /\ http' = http
       ELSE /\ http' = viriumHttpClient("DELETE", "/api/volumes/delete")
            /\ rs' = IF rq.api = "fail" THEN Error("API request failed", NoValue)
                     ELSE Ok(NoValue)
    /\ UNCHANGED <<rq, nodeVars>>

DeleteSnapshot ==
    /\ rq.kind = "DeleteSnapshot" /\ rs = NoResponse
    /\ IF rq.id = ""
       THEN /\ rs' = Error("snapshot ID is required", NoValue)
            /\ http' = http
       ELSE /\ http' = viriumHttpClient("DELETE", "/api/snapshot/delete")
            /\ rs' = IF rq.api = "fail" THEN Error("API request failed", NoValue)
                     ELSE Ok(NoValue)
    /\ UNCHANGED <<rq, nodeVars>>

ControllerExpandVolume ==
    /\ rq.kind = "ControllerExpandVolume" /\ rs = NoResponse
    /\ IF rq.id = ""
       THEN /\ rs' = Error("Volume ID missing in request", NoValue)
            /\ http' = http
       ELSE IF rq.capacityRange = "nil"
       THEN /\ rs' = Error("Capacity Range missing in request", NoValue)
            /\ http' = http
       ELSE /\ http' = viriumHttpClient("POST", "/api/volumes/resize")
            /\ rs' = IF rq.api = "fail" THEN Error("API request failed", NoValue)
                     ELSE IF rq.api = "garbage"
                     THEN Error("failed to parse volume response", NoValue)
                     ELSE Ok([CapacityBytes |-> rq.capacityRange])
    /\ UNCHANGED <<rq, nodeVars>>

\* the orchestrator publishes the volume CreateVolume returned, handing its
\* volume context to the node unchanged
PublishCreatedVolume ==
    /\ rq.kind = "CreateVolume" /\ rs # NoResponse /\ rs.status = "ok"
    /\ rq' = Request("getISCSIInfo", rs.val.VolumeId, rs.val.VolumeContext, <<>>, "nil", "ok")
    /\ rs' = NoResponse
    /\ http' = <<>>
    /\ UNCHANGED nodeVars

\* one request is received and handled; the node's attach/detach machine is idle
InitRequest ==
    /\ rq \in Requests /\ rs = NoResponse /\ http = <<>>
    /\ targetIqn = [v \in Vols |-> "iqnA"]
    /\ sessions = {} /\ devices = {} /\ mounts = [p \in TargetPaths |-> NoDevice]
    /\ dirs = {} /\ files = <<>>
    /\ pc = "idle" /\ req = NoReq
    /\ devicePath = "" /\ cnt = 0 /\ device = NoDevice /\ connector = ZeroConnector
    /\ err = Nil /\ site = 0 /\ log = <<>> /\ snap = NoSnap /\ prev = NoPrev

NextRequest ==
    \/ GetISCSIInfo
    \/ ParseSessionSecret
    \/ ParseDiscoverySecret
    \/ CreateVolume
    \/ DeleteVolume
    \/ DeleteSnapshot
    \/ ControllerExpandVolume
    \/ PublishCreatedVolume

SpecRequest == InitRequest /\ [][NextRequest]_vars

\* ===================================================== claims on requests
Handled(kind) == rq.kind = kind /\ rs # NoResponse
IsHostPort(portal) ==
    /\ Len(portal) = 3 /\ portal[2] = ":"
    /\ portal[1] # ":" /\ portal[3] # ":"
Built == Handled("getISCSIInfo") /\ rs.status = "ok" /\ ~rs.val.connector.nil

\* C15: every Connector built from a publish request that passes validation has
\* at least one target portal, each in host:port form (3260 appended to a
\* portal given without a port), also when the request carries target_portal
\* and no "portals" array.  The code appends the target portal only inside
\* `if len(portalList) > 0`, so without "portals" the list is empty.
C15_TargetPortalsHostPort ==
    Built =>
        /\ Len(rs.val.connector.TargetPortals) >= 1
        /\ \A i \in 1..Len(rs.val.connector.TargetPortals) :
               IsHostPort(rs.val.connector.TargetPortals[i])
        /\ rs.val.connector.TargetPortals[1] =
               IF Contains(rq.ctx.target_portal, ":") THEN rq.ctx.target_portal
               ELSE rq.ctx.target_portal \o <<":", "3260">>

\* C16: parseSessionSecret and parseDiscoverySecret return either a Secrets
\* with all four fields taken from the map and type "chap", or the zero
\* Secrets; a map that holds some key and misses one of the block's four gives
\* an error and the zero Secrets, never a partly filled one (the empty map is
\* "no auth configured": the zero Secrets and no error).
SecretsOf(m, ks) ==
    [UserName |-> m[ks[1]], Password |-> m[ks[2]], UserNameIn |-> m[ks[3]],
     PasswordIn |-> m[ks[4]], SecretsType |-> "chap"]
AllOrNothing(m, ks) ==
    /\ rs.val.secret = ZeroSecrets
       \/ (KeySet(ks) \subseteq DOMAIN m /\ rs.val.secret = SecretsOf(m, ks))
    /\ (DOMAIN m # {} /\ ~(KeySet(ks) \subseteq DOMAIN m)) =>
           rs.status = "error" /\ rs.val.secret = ZeroSecrets
    /\ DOMAIN m = {} => rs.status = "ok" /\ rs.val.secret = ZeroSecrets
    /\ KeySet(ks) \subseteq DOMAIN m =>
           rs.status = "ok" /\ rs.val.secret = SecretsOf(m, ks)
C16_SecretsAllOrNothing ==
    /\ Handled("parseSessionSecret") => AllOrNothing(rq.secretParams, SessionKeys)
    /\ Handled("parseDiscoverySecret") => AllOrNothing(rq.secretParams, DiscoveryKeys)

\* a session block with its first key and not its last was parsed and rejected
C16_Witness ==
    /\ Handled("parseSessionSecret")
    /\ SessionKeys[1] \in DOMAIN rq.secretParams
    /\ SessionKeys[4] \notin DOMAIN rq.secretParams
    /\ rs.status = "error" /\ rs.val.secret = ZeroSecrets

\* C17: the four keys of a CHAP block are mandatory only if some key of that
\* block is present: a blob with a complete session block and no sendtargets
\* key is accepted by getISCSIInfo with populated session secrets and zero
\* discovery secrets, and symmetrically for a discovery-only blob.  The code
\* runs both parsers on the whole map, and each rejects a non-empty map that
\* lacks its own keys.
ValidTarget ==
    /\ Get(rq.ctx, "target_portal", <<>>) # <<>> /\ Get(rq.ctx, "target_iqn", "") # ""
    /\ rq.id # ""
    /\ Get(rq.ctx, "lun", <<>>) \in {<<"0">>, <<"1", "2">>}
    /\ Get(rq.ctx, "portals", NoJSON).kind # "invalid"
SecretBlob(keys) ==
    /\ "secret" \in DOMAIN rq.ctx
    /\ rq.ctx.secret.kind = "object" /\ DOMAIN rq.ctx.secret.map = keys
C17_SingleBlockAccepted ==
    /\ (Handled("getISCSIInfo") /\ ValidTarget /\ SecretBlob(KeySet(SessionKeys))) =>
           /\ rs.status = "ok"
           /\ rs.val.iscsiDisk.sessionSecret = SecretsOf(rq.ctx.secret.map, SessionKeys)
           /\ rs.val.iscsiDisk.discoverySecret = ZeroSecrets
    /\ (Handled("getISCSIInfo") /\ ValidTarget /\ SecretBlob(KeySet(DiscoveryKeys))) =>
           /\ rs.status = "ok"
           /\ rs.val.iscsiDisk.discoverySecret = SecretsOf(rq.ctx.secret.map, DiscoveryKeys)
           /\ rs.val.iscsiDisk.sessionSecret = ZeroSecrets

\* C18: a request lacking a required field is rejected with an error before
\* any external side effect: no HTTP request is sent and no iSCSI or mount
\* operation is started.  CreateVolume reads req.CapacityRange.RequiredBytes
\* with no nil check, so without a capacity range it panics.
LacksRequiredField ==
    \/ /\ rq.kind = "getISCSIInfo"
       /\ \/ Get(rq.ctx, "target_portal", <<>>) = <<>>
          \/ Get(rq.ctx, "target_iqn", "") = ""
          \/ Get(rq.ctx, "lun", <<>>) = <<>>
    \/ rq.kind \in {"DeleteVolume", "DeleteSnapshot"} /\ rq.id = ""
    \/ rq.kind = "ControllerExpandVolume" /\ (rq.id = "" \/ rq.capacityRange = "nil")
    \/ rq.kind = "CreateVolume" /\ rq.capacityRange = "nil"
C18_MissingFieldRejected ==
    (rs # NoResponse /\ LacksRequiredField) =>
        /\ rs.status = "error"
        /\ http = <<>>
        /\ log = <<>> /\ pc = "idle"

\* C27: the volume context of a successful CreateVolume carries the target
\* information under the keys getISCSIInfo reads (target_portal, target_iqn,
\* lun), so a publish request built from it unchanged is not rejected with
\* "ISCSI target information is missing".  CreateVolume writes targetPortal
\* and iqn.
FromCreateVolume == rq.kind = "getISCSIInfo" /\ "interface" \in DOMAIN rq.ctx
C27_CreatedContextPublishable ==
    /\ FromCreateVolume =>
           {"target_portal", "target_iqn", "lun"} \subseteq DOMAIN rq.ctx
    /\ (FromCreateVolume /\ rs # NoResponse) =>
           rs.err # "ISCSI target information is missing"
====
